---- MODULE Spec2Model ----
(***************************************************************************)
(* scripts/ghostty_color_remap.py: rewriting of the 16 ANSI foreground     *)
(* colour escape sequences into the truecolor sequences of the cyberdream  *)
(* theme, and the command line run that applies it to a file.              *)
(*                                                                         *)
(* A text is a sequence of Unicode code points, a file content a sequence  *)
(* of bytes (0..255).                                                      *)
(***************************************************************************)
EXTENDS Integers, Sequences, FiniteSets, TLC

VARIABLES
  argv,         \* sys.argv: program name followed by the positional arguments
  fs,           \* the file system: path -> byte sequence, or NoFile
  fs0,          \* the file system when the run started (history)
  pc,           \* position of the run
  content,      \* bytes read from the input file
  content_str,  \* content decoded as text
  remapped,     \* result of remap_colors(content_str)
  stdout,       \* the lines printed, by kind
  exit_code,    \* process exit status, NoExit while running
  in_handle,    \* handle of the input file: "none", "open", "closed"
  out_handle,   \* handle of the output file: "none", "open", "closed"
  opened,       \* paths on which open() was called in this run
  io_failed,    \* the file I/O step that raised, "" when none did
  again,        \* remap_colors applied to its own output
  applied       \* indices of the pairs applied so far, in the order applied

vars == << argv, fs, fs0, pc, content, content_str, remapped, stdout,
           exit_code, in_handle, out_handle, opened, io_failed, again,
           applied >>

----------------------------------------------------------------------------
(* The mapping table, in insertion order (the order dict.items() yields).   *)
(* '\x1b' = 27, '[' = 91, ';' = 59, 'm' = 109, '0'..'9' = 48..57.           *)

CYBERDREAM_COLORS ==
  <<
    << <<27,91,51,48,109>>,
       <<27,91,51,56,59,50,59,50,50,59,50,52,59,50,54,109>> >>,
    << <<27,91,51,49,109>>,
       <<27,91,51,56,59,50,59,50,53,53,59,49,49,48,59,57,52,109>> >>,
    << <<27,91,51,50,109>>,
       <<27,91,51,56,59,50,59,57,52,59,50,53,53,59,49,48,56,109>> >>,
    << <<27,91,51,51,109>>,
       <<27,91,51,56,59,50,59,50,52,49,59,50,53,53,59,57,52,109>> >>,
    << <<27,91,51,52,109>>,
       <<27,91,51,56,59,50,59,57,52,59,49,54,49,59,50,53,53,109>> >>,
    << <<27,91,51,53,109>>,
       <<27,91,51,56,59,50,59,49,56,57,59,57,52,59,50,53,53,109>> >>,
    << <<27,91,51,54,109>>,
       <<27,91,51,56,59,50,59,57,52,59,50,52,49,59,50,53,53,109>> >>,
    << <<27,91,51,55,109>>,
       <<27,91,51,56,59,50,59,50,53,53,59,50,53,53,59,50,53,53,109>> >>,
    << <<27,91,57,48,109>>,
       <<27,91,51,56,59,50,59,54,48,59,54,52,59,55,50,109>> >>,
    << <<27,91,57,49,109>>,
       <<27,91,51,56,59,50,59,50,53,53,59,49,49,48,59,57,52,109>> >>,
    << <<27,91,57,50,109>>,
       <<27,91,51,56,59,50,59,57,52,59,50,53,53,59,49,48,56,109>> >>,
    << <<27,91,57,51,109>>,
       <<27,91,51,56,59,50,59,50,52,49,59,50,53,53,59,57,52,109>> >>,
    << <<27,91,57,52,109>>,
       <<27,91,51,56,59,50,59,57,52,59,49,54,49,59,50,53,53,109>> >>,
    << <<27,91,57,53,109>>,
       <<27,91,51,56,59,50,59,49,56,57,59,57,52,59,50,53,53,109>> >>,
    << <<27,91,57,54,109>>,
       <<27,91,51,56,59,50,59,57,52,59,50,52,49,59,50,53,53,109>> >>,
    << <<27,91,57,55,109>>,
       <<27,91,51,56,59,50,59,50,53,53,59,50,53,53,59,50,53,53,109>> >>
  >>

Pairs == 1..Len(CYBERDREAM_COLORS)

ansi_code(k) == CYBERDREAM_COLORS[k][1]

\* variants of rgb_code: bright black given the colour of black; bright
\* black rewritten to the sequence for black; black rewritten to the
\* sequence for red
rgb_code_bright_as_standard(k) ==
  IF k = 9 THEN CYBERDREAM_COLORS[1][2] ELSE CYBERDREAM_COLORS[k][2]

rgb_code_to_earlier_source(k) ==
  IF k = 9 THEN CYBERDREAM_COLORS[1][1] ELSE CYBERDREAM_COLORS[k][2]

rgb_code_to_later_source(k) ==
  IF k = 1 THEN CYBERDREAM_COLORS[2][1] ELSE CYBERDREAM_COLORS[k][2]

rgb_code(k) == CYBERDREAM_COLORS[k][2]

----------------------------------------------------------------------------
(* str.replace(old, new): every non-overlapping occurrence of old, found    *)
(* scanning from the left, is replaced by new.                              *)

MatchAt(s, old, i) ==
  /\ i + Len(old) - 1 <= Len(s)
  /\ \A j \in 1..Len(old) : s[i + j - 1] = old[j]

RECURSIVE ReplaceFrom(_, _, _, _)
ReplaceFrom(s, old, new, i) ==
  IF i > Len(s) THEN <<>>
  ELSE IF MatchAt(s, old, i)
       THEN new \o ReplaceFrom(s, old, new, i + Len(old))
       ELSE <<s[i]>> \o ReplaceFrom(s, old, new, i + 1)

\* variant of str_replace: only the first occurrence is replaced
RECURSIVE ReplaceFirstFrom(_, _, _, _)
ReplaceFirstFrom(s, old, new, i) ==
  IF i > Len(s) THEN <<>>
  ELSE IF MatchAt(s, old, i)
       THEN new \o SubSeq(s, i + Len(old), Len(s))
       ELSE <<s[i]>> \o ReplaceFirstFrom(s, old, new, i + 1)

str_replace_first(s, old, new) == ReplaceFirstFrom(s, old, new, 1)

str_replace(s, old, new) == ReplaceFrom(s, old, new, 1)

(* remap_colors: result = content, then one whole-buffer replace per pair, *)
(* in the table's order.                                                    *)
RECURSIVE RemapLoop(_, _)
RemapLoop(result, k) ==
  IF k > Len(CYBERDREAM_COLORS) THEN result
  ELSE RemapLoop(str_replace(result, ansi_code(k), rgb_code(k)), k + 1)

remap_colors(text) == RemapLoop(text, 1)

----------------------------------------------------------------------------
(* bytes.decode('utf-8', errors='replace'): a well-formed sequence yields   *)
(* its code point; an ill-formed one yields one U+FFFD for the longest      *)
(* prefix that could still start a well-formed sequence (one byte at        *)
(* least), and decoding resumes right after that prefix.                    *)

REPLACEMENT_CHARACTER == 65533

\* number of continuation bytes the lead byte b announces, 0 for ASCII,
\* -1 when b cannot start a sequence
Following(b) ==
  IF b < 128 THEN 0
  ELSE IF b \in 194..223 THEN 1
  ELSE IF b \in 224..239 THEN 2
  ELSE IF b \in 240..244 THEN 3
  ELSE -1

\* variant of ContinuationRange: the lead byte ED is not restricted, so the
\* encodings of surrogates are accepted
ContinuationRange_surrogates(b, j) ==
  IF j > 1 THEN 128..191
  ELSE IF b = 224 THEN 160..191
  ELSE IF b = 240 THEN 144..191
  ELSE IF b = 244 THEN 128..143
  ELSE 128..191

\* the values allowed for the j-th byte after lead byte b
ContinuationRange(b, j) ==
  IF j > 1 THEN 128..191
  ELSE IF b = 224 THEN 160..191
  ELSE IF b = 237 THEN 128..159
  ELSE IF b = 240 THEN 144..191
  ELSE IF b = 244 THEN 128..143
  ELSE 128..191

\* how many of the n bytes after position i continue the sequence begun at i
RECURSIVE ValidFollowing(_, _, _, _)
ValidFollowing(bytes, i, n, j) ==
  IF j > n \/ i + j > Len(bytes) THEN j - 1
  ELSE IF bytes[i + j] \in ContinuationRange(bytes[i], j)
       THEN ValidFollowing(bytes, i, n, j + 1)
       ELSE j - 1

CodePoint(bytes, i, n) ==
  IF n = 1 THEN (bytes[i] - 192) * 64 + (bytes[i + 1] - 128)
  ELSE IF n = 2 THEN (bytes[i] - 224) * 4096 + (bytes[i + 1] - 128) * 64
                     + (bytes[i + 2] - 128)
  ELSE (bytes[i] - 240) * 262144 + (bytes[i + 1] - 128) * 4096
       + (bytes[i + 2] - 128) * 64 + (bytes[i + 3] - 128)

RECURSIVE DecodeFrom(_, _)
DecodeFrom(bytes, i) ==
  IF i > Len(bytes) THEN <<>>
  ELSE LET n == Following(bytes[i]) IN
    IF n = 0 THEN <<bytes[i]>> \o DecodeFrom(bytes, i + 1)
    ELSE IF n = -1 THEN <<REPLACEMENT_CHARACTER>> \o DecodeFrom(bytes, i + 1)
    ELSE LET m == ValidFollowing(bytes, i, n, 1) IN
      IF m = n THEN <<CodePoint(bytes, i, n)>> \o DecodeFrom(bytes, i + n + 1)
      ELSE <<REPLACEMENT_CHARACTER>> \o DecodeFrom(bytes, i + m + 1)

\* variant of utf8_decode_replace: errors='ignore', ill-formed bytes dropped
RECURSIVE DecodeIgnoreFrom(_, _)
DecodeIgnoreFrom(bytes, i) ==
  IF i > Len(bytes) THEN <<>>
  ELSE LET n == Following(bytes[i]) IN
    IF n = 0 THEN <<bytes[i]>> \o DecodeIgnoreFrom(bytes, i + 1)
    ELSE IF n = -1 THEN DecodeIgnoreFrom(bytes, i + 1)
    ELSE LET m == ValidFollowing(bytes, i, n, 1) IN
      IF m = n
      THEN <<CodePoint(bytes, i, n)>> \o DecodeIgnoreFrom(bytes, i + n + 1)
      ELSE DecodeIgnoreFrom(bytes, i + m + 1)

utf8_decode_ignore(bytes) == DecodeIgnoreFrom(bytes, 1)

utf8_decode_replace(bytes) == DecodeFrom(bytes, 1)

(* str.encode('utf-8'): strict; a surrogate code point raises.              *)
IsSurrogate(cp) == cp \in 55296..57343

CanEncode(text) == \A i \in 1..Len(text) : ~IsSurrogate(text[i])

EncodeChar(cp) ==
  IF cp < 128 THEN <<cp>>
  ELSE IF cp < 2048 THEN <<192 + (cp \div 64), 128 + (cp % 64)>>
  ELSE IF cp < 65536
       THEN <<224 + (cp \div 4096), 128 + ((cp \div 64) % 64), 128 + (cp % 64)>>
  ELSE <<240 + (cp \div 262144), 128 + ((cp \div 4096) % 64),
         128 + ((cp \div 64) % 64), 128 + (cp % 64)>>

RECURSIVE utf8_encode(_)
utf8_encode(text) ==
  IF text = <<>> THEN <<>>
  ELSE EncodeChar(Head(text)) \o utf8_encode(Tail(text))

----------------------------------------------------------------------------
(* Bounds and input sets.                                                   *)

MaxPieces == 3

RECURSIVE Concat(_)
Concat(ps) == IF ps = <<>> THEN <<>> ELSE Head(ps) \o Concat(Tail(ps))

SeqsUpTo(S, n) == UNION { [1..k -> S] : k \in 0..n }

Sources == { ansi_code(k) : k \in Pairs }

\* fragments a text is put together from: source sequences of both ranges,
\* pieces of them ("ESC[" "3" "1m" join to a source sequence), unmapped SGR
\* codes (reset, bold), a truecolor sequence, plain text
TextPieces ==
  { ansi_code(1), ansi_code(2), ansi_code(9), ansi_code(16),
    <<27>>, <<27, 91>>, <<51>>, <<49, 109>>, <<120>>,
    <<27, 91, 48, 109>>, <<27, 91, 49, 109>>, rgb_code(2) }

\* every source sequence alone, and every text of at most MaxPieces fragments
Texts == Sources \cup { Concat(ps) : ps \in SeqsUpTo(TextPieces, MaxPieces) }

NoExit == -1

Paths == {"a", "b"}

NoFile == [exists |-> FALSE, data |-> <<>>]

File(bytes) == [exists |-> TRUE, data |-> bytes]

cliVars == << argv, fs, fs0, content, stdout, exit_code, in_handle,
              out_handle, opened, io_failed >>

NoRun ==
  /\ argv = <<>>
  /\ fs = [p \in Paths |-> NoFile]
  /\ fs0 = fs
  /\ content = <<>>
  /\ stdout = <<>>
  /\ exit_code = NoExit
  /\ in_handle = "none"
  /\ out_handle = "none"
  /\ opened = {}
  /\ io_failed = ""

----------------------------------------------------------------------------
(* remap_colors as a function of its argument: applied to a text, then to   *)
(* its own result.                                                          *)

InitRemap ==
  /\ NoRun
  /\ pc = "text"
  /\ content_str \in Texts
  /\ remapped = <<>>
  /\ again = <<>>
  /\ applied = <<>>

Remap ==
  /\ pc = "text"
  /\ remapped' = remap_colors(content_str)
  /\ pc' = "remapped"
  /\ UNCHANGED << cliVars, content_str, again, applied >>

RemapAgain ==
  /\ pc = "remapped"
  /\ again' = remap_colors(remapped)
  /\ pc' = "again"
  /\ UNCHANGED << cliVars, content_str, remapped, applied >>

NextRemap == Remap \/ RemapAgain

SpecRemap == InitRemap /\ [][NextRemap]_vars

----------------------------------------------------------------------------
(* The pairs applied in another order: up to MaxPicks pairs chosen freely,  *)
(* then the remaining ones in the table's order.  applied is the order.     *)

MaxPicks == 2

\* every source sequence alone, and texts with two source sequences, with a
\* source sequence split by another, and with none
OrderTexts ==
  Sources \cup
  { <<>>,
    ansi_code(1) \o ansi_code(9),
    ansi_code(2) \o <<120>> \o ansi_code(1),
    <<27, 91, 51>> \o ansi_code(2) \o <<49, 109>>,
    <<27, 91, 48, 109>> }

InSeq(x, sq) == \E i \in 1..Len(sq) : sq[i] = x

RECURSIVE ApplyRemaining(_, _, _)
ApplyRemaining(result, done, k) ==
  IF k > Len(CYBERDREAM_COLORS) THEN result
  ELSE IF InSeq(k, done) THEN ApplyRemaining(result, done, k + 1)
  ELSE ApplyRemaining(str_replace(result, ansi_code(k), rgb_code(k)),
                      done, k + 1)

Remaining(done) ==
  LET F[k \in 1..(Len(CYBERDREAM_COLORS) + 1)] ==
        IF k > Len(CYBERDREAM_COLORS) THEN <<>>
        ELSE IF InSeq(k, done) THEN F[k + 1] ELSE <<k>> \o F[k + 1]
  IN  F[1]

InitOrder ==
  /\ NoRun
  /\ pc = "order"
  /\ content_str \in OrderTexts
  /\ remapped = content_str
  /\ again = <<>>
  /\ applied = <<>>

ApplyPair(k) ==
  /\ pc = "order"
  /\ Len(applied) < MaxPicks
  /\ ~InSeq(k, applied)
  /\ remapped' = str_replace(remapped, ansi_code(k), rgb_code(k))
  /\ applied' = Append(applied, k)
  /\ UNCHANGED << cliVars, pc, content_str, again >>

ApplyRest ==
  /\ pc = "order"
  /\ remapped' = ApplyRemaining(remapped, applied, 1)
  /\ applied' = applied \o Remaining(applied)
  /\ pc' = "ordered"
  /\ UNCHANGED << cliVars, content_str, again >>

NextOrder == (\E k \in Pairs : ApplyPair(k)) \/ ApplyRest

SpecOrder == InitOrder /\ [][NextOrder]_vars

----------------------------------------------------------------------------
(* The command line run (the __main__ block).                               *)

MaxArgs == 3

MaxFilePieces == 2

\* fragments a file content is put together from: source sequences whole
\* and split, an unmapped code, plain text, well-formed multi-byte
\* characters, and byte sequences that are ill-formed in UTF-8
FilePieces ==
  { <<27, 91, 51, 49, 109>>, <<27, 91, 57, 48, 109>>, <<27, 91, 48, 109>>,
    <<27, 91, 51>>, <<49, 109>>, <<120>>,
    <<195, 169>>, <<226, 130, 172>>, <<240, 159, 152, 128>>,
    <<255>>, <<226, 130>>, <<237, 160, 128>> }

FileContents == { Concat(ps) : ps \in SeqsUpTo(FilePieces, MaxFilePieces) }

OldContents == { <<>>, <<111, 108, 100>> }

input_file == argv[2]

output_file == argv[3]

\* variant of WrongArgc: only too few arguments are rejected
WrongArgc_too_few == Len(argv) < 3

WrongArgc == Len(argv) # 3

Init ==
  /\ argv \in { <<"ghostty_color_remap.py">> \o a : a \in SeqsUpTo(Paths, MaxArgs) }
  /\ \E x \in {NoFile} \cup { File(b) : b \in FileContents },
        y \in {NoFile} \cup { File(b) : b \in OldContents } :
       fs = [p \in Paths |-> IF p = "a" THEN x ELSE y]
  /\ fs0 = fs
  /\ pc = "start"
  /\ content = <<>>
  /\ content_str = <<>>
  /\ remapped = <<>>
  /\ stdout = <<>>
  /\ exit_code = NoExit
  /\ in_handle = "none"
  /\ out_handle = "none"
  /\ opened = {}
  /\ io_failed = ""
  /\ again = <<>>
  /\ applied = <<>>

\* if len(sys.argv) != 3: print usage, sys.exit(1)
Usage ==
  /\ pc = "start"
  /\ WrongArgc
  /\ stdout' = Append(stdout, "usage")
  /\ exit_code' = 1
  /\ pc' = "done"
  /\ UNCHANGED << argv, fs, fs0, content, content_str, remapped, in_handle,
                  out_handle, opened, io_failed, again, applied >>

\* except Exception as e: print(f"Error: {e}"); sys.exit(1)
Except(step) ==
  /\ io_failed' = step
  /\ stdout' = Append(stdout, "error")
  /\ exit_code' = 1
  /\ pc' = "done"

\* variant of OpenInput: the file is opened in a mode that creates it when
\* it is missing
OpenInput_creating ==
  /\ pc = "start"
  /\ ~WrongArgc
  /\ opened' = opened \cup {input_file}
  /\ \E ok \in BOOLEAN :
       IF ok
       THEN /\ fs' = IF fs[input_file].exists THEN fs
                     ELSE [fs EXCEPT ![input_file] = File(<<>>)]
            /\ in_handle' = "open"
            /\ pc' = "in_open"
            /\ UNCHANGED << out_handle, io_failed, stdout, exit_code >>
       ELSE /\ Except("open_input")
            /\ UNCHANGED << fs, in_handle, out_handle >>
  /\ UNCHANGED << argv, fs0, content, content_str, remapped, again, applied >>

\* variant of OpenInput: both files are opened in one with statement
OpenInput_with_output ==
  /\ pc = "start"
  /\ ~WrongArgc
  /\ \E ok \in BOOLEAN :
       IF ok /\ fs[input_file].exists
       THEN /\ opened' = opened \cup {input_file, output_file}
            /\ fs' = [fs EXCEPT ![output_file] = File(<<>>)]
            /\ in_handle' = "open"
            /\ out_handle' = "open"
            /\ pc' = "in_open"
            /\ UNCHANGED << io_failed, stdout, exit_code >>
       ELSE /\ opened' = opened \cup {input_file}
            /\ Except("open_input")
            /\ UNCHANGED << fs, in_handle, out_handle >>
  /\ UNCHANGED << argv, fs0, content, content_str, remapped, again, applied >>

\* with open(input_file, 'rb') as f: the open succeeds only on an existing
\* file, and may fail on one (unreadable)
OpenInput ==
  /\ pc = "start"
  /\ ~WrongArgc
  /\ opened' = opened \cup {input_file}
  /\ \E ok \in BOOLEAN :
       IF ok /\ fs[input_file].exists
       THEN /\ in_handle' = "open"
            /\ pc' = "in_open"
            /\ UNCHANGED << io_failed, stdout, exit_code >>
       ELSE /\ Except("open_input")
            /\ UNCHANGED in_handle
  /\ UNCHANGED << argv, fs, fs0, content, content_str, remapped, out_handle,
                  again, applied >>

\* content = f.read(), then the with block closes f (also when read raises)
ReadInput ==
  /\ pc = "in_open"
  /\ in_handle' = "closed"
  /\ \E ok \in BOOLEAN :
       IF ok
       THEN /\ content' = fs[input_file].data
            /\ pc' = "read"
            /\ UNCHANGED << io_failed, stdout, exit_code >>
       ELSE /\ Except("read")
            /\ UNCHANGED content
  /\ UNCHANGED << argv, fs, fs0, content_str, remapped, out_handle, opened,
                  again, applied >>

\* content_str = content.decode('utf-8', errors='replace')
DecodeContent ==
  /\ pc = "read"
  /\ content_str' = utf8_decode_replace(content)
  /\ pc' = "decoded"
  /\ UNCHANGED << argv, fs, fs0, content, remapped, stdout, exit_code,
                  in_handle, out_handle, opened, io_failed, again, applied >>

\* remapped = remap_colors(content_str)
RemapContent ==
  /\ pc = "decoded"
  /\ remapped' = remap_colors(content_str)
  /\ pc' = "remapped"
  /\ UNCHANGED << argv, fs, fs0, content, content_str, stdout, exit_code,
                  in_handle, out_handle, opened, io_failed, again, applied >>

\* with open(output_file, 'wb') as f: creates the file or truncates it; a
\* failed open leaves the file system as it was
OpenOutput ==
  /\ pc = "remapped"
  /\ opened' = opened \cup {output_file}
  /\ \E ok \in BOOLEAN :
       IF ok
       THEN /\ fs' = [fs EXCEPT ![output_file] = File(<<>>)]
            /\ out_handle' = "open"
            /\ pc' = "out_open"
            /\ UNCHANGED << io_failed, stdout, exit_code >>
       ELSE /\ Except("open_output")
            /\ UNCHANGED << fs, out_handle >>
  /\ UNCHANGED << argv, fs0, content, content_str, remapped, in_handle,
                  again, applied >>

\* f.write(remapped.encode('utf-8')), then the with block closes f.  The
\* encoding raises on a surrogate; a failing write or close leaves the first
\* n bytes of the data in the file.
WriteOutput ==
  /\ pc = "out_open"
  /\ out_handle' = "closed"
  /\ IF ~CanEncode(remapped)
     THEN /\ Except("encode")
          /\ UNCHANGED fs
     ELSE LET data == utf8_encode(remapped) IN
          \E ok \in BOOLEAN :
            IF ok
            THEN /\ fs' = [fs EXCEPT ![output_file] = File(data)]
                 /\ pc' = "written"
                 /\ UNCHANGED << io_failed, stdout, exit_code >>
            ELSE /\ \E n \in 0..Len(data) :
                      fs' = [fs EXCEPT ![output_file] =
                                           File(SubSeq(data, 1, n))]
                 /\ Except("write")
  /\ UNCHANGED << argv, fs0, content, content_str, remapped, in_handle,
                  opened, again, applied >>

\* print("Cyberdream color remapping complete: ..."), end of the script
Complete ==
  /\ pc = "written"
  /\ stdout' = Append(stdout, "complete")
  /\ exit_code' = 0
  /\ pc' = "done"
  /\ UNCHANGED << argv, fs, fs0, content, content_str, remapped, in_handle,
                  out_handle, opened, io_failed, again, applied >>

Next ==
  \/ Usage
  \/ OpenInput
  \/ ReadInput
  \/ DecodeContent
  \/ RemapContent
  \/ OpenOutput
  \/ WriteOutput
  \/ Complete

Spec == Init /\ [][Next]_vars

----------------------------------------------------------------------------
(* The mapping as the specification states it: SGR code -> RGB hex digits.  *)

SGRCodes == (30..37) \cup (90..97)

ThemeHex(c) ==
  CASE c \in {30}     -> <<1, 6, 1, 8, 1, 10>>     \* #16181a
    [] c \in {31, 91} -> <<15, 15, 6, 14, 5, 14>>  \* #ff6e5e
    [] c \in {32, 92} -> <<5, 14, 15, 15, 6, 12>>  \* #5eff6c
    [] c \in {33, 93} -> <<15, 1, 15, 15, 5, 14>>  \* #f1ff5e
    [] c \in {34, 94} -> <<5, 14, 10, 1, 15, 15>>  \* #5ea1ff
    [] c \in {35, 95} -> <<11, 13, 5, 14, 15, 15>> \* #bd5eff
    [] c \in {36, 96} -> <<5, 14, 15, 1, 15, 15>>  \* #5ef1ff
    [] c \in {37, 97} -> <<15, 15, 15, 15, 15, 15>> \* #ffffff
    [] c \in {90}     -> <<3, 12, 4, 0, 4, 8>>     \* #3c4048

HexByte(h, i) == 16 * h[2 * i - 1] + h[2 * i]

RECURSIVE Dec(_)
Dec(n) == IF n < 10 THEN <<48 + n>> ELSE Dec(n \div 10) \o <<48 + (n % 10)>>

\* ESC [ <c> m
SourceSeq(c) == <<27, 91>> \o Dec(c) \o <<109>>

\* ESC [ 38 ; 2 ; <R> ; <G> ; <B> m
Truecolor(c) ==
  <<27, 91, 51, 56, 59, 50, 59>> \o Dec(HexByte(ThemeHex(c), 1)) \o <<59>>
    \o Dec(HexByte(ThemeHex(c), 2)) \o <<59>>
    \o Dec(HexByte(ThemeHex(c), 3)) \o <<109>>

SpecPairs == { <<SourceSeq(c), Truecolor(c)>> : c \in SGRCodes }

OccursAt(s, w, i) ==
  /\ i + Len(w) - 1 <= Len(s)
  /\ SubSeq(s, i, i + Len(w) - 1) = w

SourceStartsAt(s, i) == { pr \in SpecPairs : OccursAt(s, pr[1], i) }

NumSources(s) ==
  Cardinality({ i \in 1..Len(s) : SourceStartsAt(s, i) # {} })

NumTruecolor(s) ==
  Cardinality({ i \in 1..Len(s) : \E pr \in SpecPairs : OccursAt(s, pr[2], i) })

\* one scan from the left: a source sequence is replaced where it stands,
\* any other character is kept
RECURSIVE ScanFrom(_, _)
ScanFrom(s, i) ==
  IF i > Len(s) THEN <<>>
  ELSE IF SourceStartsAt(s, i) # {}
       THEN LET pr == CHOOSE pr \in SourceStartsAt(s, i) : TRUE
            IN  pr[2] \o ScanFrom(s, i + Len(pr[1]))
       ELSE <<s[i]>> \o ScanFrom(s, i + 1)

ReplacedInPlace(s) == ScanFrom(s, 1)

----------------------------------------------------------------------------
\* C1: for each SGR code c in 30..37, 90..97, remap_colors applied to the
\* text ESC[<c>m alone returns exactly ESC[38;2;R;G;Bm with R, G, B the
\* decimal values of the hex bytes the specification's table gives for c.
C1_SourceToTruecolor ==
  \A c \in SGRCodes :
    (pc # "text" /\ content_str = SourceSeq(c)) => remapped = Truecolor(c)

C1_Witness ==
  pc = "remapped" /\ content_str = SourceSeq(90) /\ remapped = Truecolor(90)

\* C2: the output of remap_colors is the input with each occurrence of a
\* source sequence replaced where it stands and every other character kept
\* in order: k occurrences yield k more truecolor sequences, and with k = 0
\* the output is the input.
C2_ReplacedInPlace ==
  pc # "text" =>
    /\ remapped = ReplacedInPlace(content_str)
    /\ NumTruecolor(remapped)
         = NumTruecolor(content_str) + NumSources(content_str)
    /\ NumSources(content_str) = 0 => remapped = content_str

C2_Witness ==
  /\ pc = "remapped"
  /\ NumSources(content_str) = 2
  /\ Len(content_str) > 10
  /\ NumTruecolor(remapped) = 2

C2_WitnessIdentity ==
  /\ pc = "remapped"
  /\ NumSources(content_str) = 0
  /\ content_str = <<27, 91, 49, 109, 120, 27, 91, 48, 109>>

\* C3: remap_colors is idempotent, its output holding no source sequence.
C3_Idempotent ==
  /\ pc # "text" => NumSources(remapped) = 0
  /\ pc = "again" => again = remapped

C3_Witness ==
  pc = "again" /\ NumSources(content_str) > 0 /\ again # content_str

----------------------------------------------------------------------------
\* C4: applying the 16 whole-buffer replacements in another order gives the
\* same output as applying them in the table's order.
C4_OrderIndependent ==
  pc = "ordered" => remapped = remap_colors(content_str)

C4_Witness ==
  /\ pc = "ordered"
  /\ Len(applied) = Len(CYBERDREAM_COLORS)
  /\ applied[1] = 9 /\ applied[2] = 1
  /\ content_str = ansi_code(1) \o ansi_code(9)
  /\ remapped = rgb_code(1) \o rgb_code(9)

----------------------------------------------------------------------------
(* Well-formed UTF-8 byte sequences (Unicode, table 3-7), stated on bytes.  *)

SecondByteOK(b1, b2) ==
  \/ b1 \in 194..223 /\ b2 \in 128..191
  \/ b1 = 224 /\ b2 \in 160..191
  \/ b1 \in 225..236 /\ b2 \in 128..191
  \/ b1 = 237 /\ b2 \in 128..159
  \/ b1 \in 238..239 /\ b2 \in 128..191
  \/ b1 = 240 /\ b2 \in 144..191
  \/ b1 \in 241..243 /\ b2 \in 128..191
  \/ b1 = 244 /\ b2 \in 128..143

SeqLength(b1) ==
  IF b1 \in 0..127 THEN 1
  ELSE IF b1 \in 194..223 THEN 2
  ELSE IF b1 \in 224..239 THEN 3
  ELSE IF b1 \in 240..244 THEN 4
  ELSE 0

\* q starts a well-formed sequence without contradicting it
WellFormedPrefix(q) ==
  /\ Len(q) >= 1
  /\ Len(q) <= SeqLength(q[1])
  /\ Len(q) >= 2 => SecondByteOK(q[1], q[2])
  /\ \A j \in 3..Len(q) : q[j] \in 128..191

WellFormedSeq(q) == WellFormedPrefix(q) /\ Len(q) = SeqLength(q[1])

RECURSIVE WellFormedFrom(_, _)
WellFormedFrom(bytes, i) ==
  IF i > Len(bytes) THEN TRUE
  ELSE \E n \in 1..4 :
         /\ i + n - 1 <= Len(bytes)
         /\ WellFormedSeq(SubSeq(bytes, i, i + n - 1))
         /\ WellFormedFrom(bytes, i + n)

WellFormedUTF8(bytes) == WellFormedFrom(bytes, 1)

\* the bytes with every maximal ill-formed subsequence replaced by EF BF BD,
\* the encoding of U+FFFD
RECURSIVE LossyFrom(_, _)
LossyFrom(bytes, i) ==
  IF i > Len(bytes) THEN <<>>
  ELSE LET lens == { n \in 1..4 : /\ i + n - 1 <= Len(bytes)
                                  /\ WellFormedPrefix(SubSeq(bytes, i, i + n - 1)) }
           m == IF lens = {} THEN 1
                ELSE CHOOSE n \in lens : \A k \in lens : k <= n
       IN  IF lens # {} /\ WellFormedSeq(SubSeq(bytes, i, i + m - 1))
           THEN SubSeq(bytes, i, i + m - 1) \o LossyFrom(bytes, i + m)
           ELSE <<239, 191, 189>> \o LossyFrom(bytes, i + m)

Lossy(bytes) == LossyFrom(bytes, 1)

Count(x, sq) == Cardinality({ i \in 1..Len(sq) : sq[i] = x })

\* the bytes the run is to leave in the output file, from the input's bytes
Expected(bytes) == utf8_encode(remap_colors(utf8_decode_replace(bytes)))

Ran == Len(argv) = 3

----------------------------------------------------------------------------
\* C5: in every run that fails at a file I/O step the program prints an
\* Error message, exits with a non-zero status, and the output file holds
\* either its complete prior content or the complete encoded result.
C5_AllOrNothing ==
  (pc = "done" /\ io_failed # "") =>
    /\ stdout = <<"error">>
    /\ exit_code \notin {0, NoExit}
    /\ \/ fs[output_file] = fs0[output_file]
       \/ fs[output_file] = File(Expected(fs0[input_file].data))

\* C6: the output file's bytes equal the input's bytes with only each
\* occurrence of a mapped sequence replaced, every other byte identical,
\* including bytes that are not valid in the text encoding.
C6_AllBytesPassThrough ==
  pc = "written" =>
    fs[output_file].data = ReplacedInPlace(fs0[input_file].data)

\* C6 as amended: the output file's bytes equal the input's bytes with each
\* maximal ill-formed UTF-8 subsequence replaced by EF BF BD and each
\* occurrence of a mapped sequence replaced by its truecolor sequence, every
\* other byte identical and in order; for a well-formed input only the
\* mapped sequences change.
C6_WellFormedBytesPassThrough ==
  pc = "written" =>
    /\ fs[output_file].data = ReplacedInPlace(Lossy(fs0[input_file].data))
    /\ WellFormedUTF8(fs0[input_file].data) =>
         fs[output_file].data = ReplacedInPlace(fs0[input_file].data)

C6_Witness ==
  /\ pc = "written"
  /\ fs0[input_file].data = <<255, 27, 91, 51, 49, 109>>
  /\ fs[output_file].data = <<239, 191, 189>> \o Truecolor(31)

\* C7: with a number of positional arguments other than two the run prints
\* the usage line, exits with status 1, and opens, creates, truncates or
\* writes no file.
C7_UsageTouchesNoFile ==
  ~Ran =>
    /\ pc \in {"start", "done"}
    /\ fs = fs0
    /\ opened = {}
    /\ in_handle = "none" /\ out_handle = "none"
    /\ pc = "done" => stdout = <<"usage">> /\ exit_code = 1

C7_Witness ==
  /\ pc = "done"
  /\ Len(argv) = 4
  /\ stdout = <<"usage">>
  /\ fs["a"].exists /\ fs["b"].exists

\* C8: with two arguments and a missing input file the run prints an Error
\* message, exits with status 1, never prints the success message, and the
\* output file is neither created nor modified.
C8_MissingInput ==
  (Ran /\ ~fs0[input_file].exists) =>
    /\ pc \in {"start", "done"}
    /\ fs = fs0
    /\ out_handle = "none"
    /\ pc = "done" => stdout = <<"error">> /\ exit_code = 1

C8_Witness ==
  /\ Ran
  /\ pc = "done"
  /\ ~fs0[input_file].exists
  /\ input_file # output_file
  /\ fs[output_file] = File(<<111, 108, 100>>)
  /\ stdout = <<"error">>

\* C9: decoding raises for no input and puts U+FFFD at each ill-formed
\* position of the bytes; the decoded text can always be encoded, the decode
\* and write steps can always be taken, and a run in which no file I/O step
\* fails ends printing the success message with status 0.
C9_DecodingTotal ==
  /\ pc \in {"decoded", "remapped", "out_open", "written"} =>
       /\ CanEncode(content_str)
       /\ utf8_encode(content_str) = Lossy(content)
       /\ ~WellFormedUTF8(content) =>
            Count(REPLACEMENT_CHARACTER, content_str) >= 1
       /\ WellFormedUTF8(content) => utf8_encode(content_str) = content
  /\ io_failed # "encode"
  /\ pc = "read" => ENABLED DecodeContent
  /\ pc = "out_open" => ENABLED WriteOutput
  /\ (pc = "done" /\ Ran /\ io_failed = "") =>
       stdout = <<"complete">> /\ exit_code = 0

C9_Witness ==
  /\ pc = "done"
  /\ content = <<237, 160, 128, 255>>
  /\ Count(REPLACEMENT_CHARACTER, content_str) = 4
  /\ stdout = <<"complete">>
  /\ exit_code = 0

\* C10: the output file is opened (and truncated) only after the input file
\* has been read and closed and the transformation computed; when both
\* paths name one file and no step fails the file ends holding the encoded
\* remap of its own original content, and when the paths differ the input
\* file is left unchanged.
C10_OutputOpenedAfterInputRead ==
  /\ out_handle # "none" =>
       /\ in_handle = "closed"
       /\ content = fs0[input_file].data
  /\ pc = "out_open" =>
       remapped = remap_colors(utf8_decode_replace(content))
  /\ (Ran /\ out_handle = "none") => fs = fs0
  /\ (pc \in {"written", "done"} /\ Ran /\ io_failed = "") =>
       fs[output_file] = File(Expected(fs0[input_file].data))
  /\ (Ran /\ input_file # output_file) => fs[input_file] = fs0[input_file]

C10_Witness ==
  /\ pc = "done"
  /\ Ran
  /\ input_file = output_file
  /\ fs0[input_file].data = <<120, 27, 91, 57, 48, 109>>
  /\ fs[input_file].data = <<120>> \o Truecolor(90)

====
